---- MODULE Spec2Model ----
(***************************************************************************)
(* windows-executor: block_on (src/lib.rs), the thread waker               *)
(* (src/waker.rs) and MessageWindow (src/sync/message_window.rs).          *)
(*                                                                         *)
(* Thread "A" is the thread that owns the message loop and the windows;    *)
(* thread "B" stands for every other thread of the process.  The Win32     *)
(* objects the code talks to (thread message queues, handles, windows and  *)
(* their GWLP_USERDATA slot) are state of the model.  A function of the    *)
(* code that calls other functions synchronously is an operator from a     *)
(* machine record to a machine record, so that one action is one whole     *)
(* handler.                                                                *)
(***************************************************************************)
EXTENDS Integers, Sequences, FiniteSets, TLC

\* ---------------------------------------------------------------- bounds
MaxQueue   == 2   \* capacity of a thread message queue (a post to a full queue fails)
MaxHeld    == 2   \* wakers thread B owns at once
MaxPolls   == 3   \* polls of the future in one block_on call
MaxHist    == 3   \* length of the remembered per-window history

\* ------------------------------------------------------------- universes
Threads  == {"A", "B"}
Types    == {"T1", "T2"}          \* the Msg types MessageWindow is used with
\* Handle values of the process: block_on's waker, the clone a poll is working
\* with, one stored waker per window, and thread B's.
Handles  == 1 .. (MaxHeld + 4)
NULL     == "NULL"                \* ptr::null_mut()
NoHandle == 0                     \* Option<Waker>::None

WM_NULL      == "WM_NULL"
WM_CREATE    == "WM_CREATE"
WM_NCCREATE  == "WM_NCCREATE"
WM_DESTROY   == "WM_DESTROY"
WM_NCDESTROY == "WM_NCDESTROY"
WM_QUIT      == "WM_QUIT"
AppMsgs      == {"WM_USER", "WM_APP"}   \* messages other code posts or sends to a window

None    == {}
Some(x) == {x}
Unwrap(o) == CHOOSE x \in o : TRUE

\* FromMessage::from_message of the two Msg types: T1 decodes one application
\* message and finds every other message not relevant, T2 decodes every message
\* it is shown.
Decodable(T) ==
    IF T = "T1" THEN {"WM_USER"}
    ELSE AppMsgs \cup {WM_CREATE, WM_NCCREATE, WM_DESTROY, WM_NCDESTROY, WM_NULL}

from_message(T, hwnd, msg) ==
    IF msg \in Decodable(T) THEN Some(<<T, msg>>) ELSE None

VARIABLES
    pc,        \* position of thread A
    fut,       \* the future block_on runs: [kind |-> "none" | "script" | "stream", win]
    bwaker,    \* block_on's local `waker` (a handle), NoHandle outside block_on
    trace,     \* outcomes of the polls of this block_on call, in order
    waits,     \* GetMessageW calls of this block_on call
    retrieved, \* messages GetMessageW retrieved (ret > 0) in this block_on call
    dispatched,\* DispatchMessageW calls of this block_on call
    lastOp,    \* last step of block_on: "none","start","pending","ready","event","quit","fail"
    chan,      \* the slot of a one-shot channel: None or Some(value sent)
    result,    \* value block_on returned: None, Some(<<"Ok", v>>), Some(<<"Err", "ShouldExit">>)
    fault,     \* "none", "panic" (a panic!), "ub" (undefined behaviour was executed)
    queue,     \* thread message queues: thread -> Seq([hwnd, msg])
    handles,   \* handle table: handle -> "free" or the thread an open handle refers to
    closeErr,  \* TRUE once CloseHandle was called on a value that is no open handle
    held,      \* wakers owned by thread B
    class,     \* the OnceLock CLASS of get_class: None or Some(type whose wnd_proc it names)
    wnd,       \* window of the adapter of each type: "none", "alive", "destroyed"
    userdata,  \* GWLP_USERDATA of each window: NULL or the address of an Inner
    heap,      \* the Box<RefCell<Inner>> of each adapter: "none", "live", "freed"
    inner,     \* contents of each Inner: [message, waker, borrowed]
    adapter,   \* the MessageWindow value of each type: "none", "owned", "dropping"
    dropLog,   \* OS-visible steps the running or last drop performed, in order
    calls,     \* wnd_proc invocations made by the last step
    lastWake,  \* wake_by_ref invocations made by the last step
    hist       \* per window: the last MaxHist deliveries and polls

vars == <<pc, fut, bwaker, trace, waits, retrieved, dispatched, lastOp, chan, result,
          fault, queue, handles, closeErr, held, class, wnd, userdata, heap, inner, adapter, dropLog,
          calls, lastWake, hist>>

\* The address of the Inner of the adapter of type w is w itself.
EmptyInner == [message |-> None, waker |-> NoHandle, borrowed |-> FALSE]

\* ------------------------------------------------- machine record helpers
\* The part of the state that synchronous calls read and write, as a record.
Machine(cur) ==
    [cur |-> cur, fault |-> fault, queue |-> queue, handles |-> handles,
     closeErr |-> closeErr,
     userdata |-> userdata, heap |-> heap, inner |-> inner, wnd |-> wnd,
     class |-> class, dropLog |-> dropLog, calls |-> <<>>, wakes |-> <<>>,
     alive |-> IF pc = "exited" THEN {"B"} ELSE Threads, ret |-> 0]

Commit(s) ==
    /\ fault' = s.fault
    /\ queue' = s.queue
    /\ handles' = s.handles
    /\ closeErr' = s.closeErr
    /\ userdata' = s.userdata
    /\ heap' = s.heap
    /\ inner' = s.inner
    /\ wnd' = s.wnd
    /\ class' = s.class
    /\ dropLog' = s.dropLog
    /\ calls' = s.calls
    /\ lastWake' = s.wakes

Fault(s, f) == IF s.fault = "none" THEN [s EXCEPT !.fault = f] ELSE s

\* ------------------------------------------------------------- waker.rs
\* GetCurrentThread(): the pseudo handle of the calling thread.
GetCurrentThread == 0 - 2

FreeHandles(s) == {h \in Handles : s.handles[h] = "free"}

\* The thread a handle value refers to, NULL for a value that is no open handle.
ThreadOf(s, h) ==
    IF h = GetCurrentThread THEN s.cur
    ELSE IF h \in Handles /\ s.handles[h] # "free" THEN s.handles[h]
    ELSE NULL

\* DuplicateHandle(.., thread, .., &mut handle, ..): <<rc, handle>>.
DuplicateHandle(s, thread) ==
    IF ThreadOf(s, thread) = NULL \/ FreeHandles(s) = {}
    THEN <<0, NoHandle>>
    ELSE <<1, CHOOSE h \in FreeHandles(s) : \A g \in FreeHandles(s) : h <= g>>

\* new_raw: the machine after the call and the RawWaker's data pointer.
new_raw(s, thread) ==
    LET d == DuplicateHandle(s, thread) IN
    IF s.fault # "none" THEN [s |-> s, h |-> NoHandle]
    ELSE IF d[1] # 1 THEN [s |-> Fault(s, "panic"), h |-> NoHandle]
    ELSE [s |-> [s EXCEPT !.handles[d[2]] = ThreadOf(s, thread)], h |-> d[2]]

for_current_thread(s) == new_raw(s, GetCurrentThread)

\* (variant: the clone duplicates the calling thread's handle instead of ptr)
clone_of_caller(s, ptr) == new_raw(s, GetCurrentThread)

\* (variant: the clone copies the handle value instead of duplicating it)
clone_same_handle(s, ptr) == [s |-> s, h |-> ptr]

clone(s, ptr) == new_raw(s, ptr)

\* GetThreadId(handle): the thread's identifier; NULL stands for the 0 it
\* returns when the handle is not valid.
GetThreadId(s, handle) == ThreadOf(s, handle)

\* PostThreadMessageW / PostMessageW: whether the post succeeds.
CanPost(s, tid) == tid \in s.alive /\ Len(s.queue[tid]) < MaxQueue

PostThreadMessageW(s, tid, msg) ==
    IF CanPost(s, tid)
    THEN [s EXCEPT !.queue[tid] = Append(@, [hwnd |-> NULL, msg |-> msg])]
    ELSE s

\* (variant: a failure to resolve the thread or to post is a panic)
wake_by_ref_strict(s, ptr) ==
    LET thread_id == GetThreadId(s, ptr)
        rec(tid, ok) == [by |-> s.cur, target |-> tid, posted |-> ok]
    IN  IF s.fault # "none" THEN s
        ELSE IF thread_id = NULL \/ ~CanPost(s, thread_id)
        THEN Fault([s EXCEPT !.wakes = Append(@, rec(thread_id, FALSE))], "panic")
        ELSE [PostThreadMessageW(s, thread_id, WM_NULL)
                 EXCEPT !.wakes = Append(@, rec(thread_id, TRUE))]

wake_by_ref(s, ptr) ==
    LET thread_id == GetThreadId(s, ptr)
        rec(tid, ok) == [by |-> s.cur, target |-> tid, posted |-> ok]
    IN  IF s.fault # "none" THEN s
        ELSE IF thread_id = NULL
        THEN [s EXCEPT !.wakes = Append(@, rec(NULL, FALSE))]
        ELSE [PostThreadMessageW(s, thread_id, WM_NULL)
                 EXCEPT !.wakes = Append(@, rec(thread_id, CanPost(s, thread_id)))]

\* CloseHandle(handle): the handle value is free afterwards; the call fails on a
\* value that is no open handle.
CloseHandle(s, handle) ==
    IF handle \in Handles /\ s.handles[handle] # "free"
    THEN [s EXCEPT !.handles[handle] = "free"]
    ELSE [s EXCEPT !.closeErr = TRUE]

drop(s, ptr) ==
    IF s.fault # "none" \/ ptr = NoHandle THEN s
    ELSE CloseHandle(s, ptr)

\* (variant: the handle is closed without the wake being sent)
wake_drop_only(s, ptr) == drop(s, ptr)

wake(s, ptr) == drop(wake_by_ref(s, ptr), ptr)

\* ------------------------------------------------ sync/message_window.rs
\* InnerPtr::new / NonNull::new: None for the null pointer.
NonNullNew(ptr) == IF ptr = NULL THEN None ELSE Some(ptr)

\* (variant: the pointer is wrapped without the null check)
get_inner_ptr_unchecked(s, hwnd) == Some(s.userdata[hwnd])

get_inner_ptr(s, hwnd) == NonNullNew(s.userdata[hwnd])

\* SetWindowLongPtrW(hwnd, GWLP_USERDATA, ptr); it fails on a window that is gone.
swap_inner_ptr(s, hwnd, ptr) ==
    LET raw == IF ptr = None THEN NULL ELSE Unwrap(ptr) IN
    [s    |-> IF s.wnd[hwnd] = "alive" THEN [s EXCEPT !.userdata[hwnd] = raw] ELSE s,
     prev |-> IF s.wnd[hwnd] = "alive" THEN NonNullNew(s.userdata[hwnd]) ELSE None]

\* DefWindowProcW: TRUE for WM_NCCREATE, 0 for the other messages of the model.
DefWindowProcW(s, hwnd, msg) ==
    [s |-> [s EXCEPT !.ret = IF msg = WM_NCCREATE THEN 1 ELSE 0],
     route |-> "default", touched |-> NULL]

\* RefCell::borrow_mut through a raw pointer: the pointer must be the address of
\* a live Inner (anything else is undefined behaviour), and the cell must not be
\* borrowed already (that panics).
borrow_mut(s, p) ==
    IF s.fault # "none" THEN s
    ELSE IF p \notin Types \/ s.heap[p] # "live" THEN Fault(s, "ub")
    ELSE IF s.inner[p].borrowed THEN Fault(s, "panic")
    ELSE [s EXCEPT !.inner[p].borrowed = TRUE]

\* (variant: the RefMut is leaked, the borrow is never given back)
release_forgets(s, p) == s

release(s, p) ==
    IF s.fault # "none" THEN s ELSE [s EXCEPT !.inner[p].borrowed = FALSE]

\* (variant: the stored waker is woken by reference and stays stored)
wnd_proc_store_keeps_waker(T, s, inner_ptr, message) ==
    LET s1 == IF inner_ptr \in Types /\ inner_ptr # T
              THEN Fault(s, "ub")
              ELSE borrow_mut(s, inner_ptr)
        s2 == [s1 EXCEPT !.inner[inner_ptr].message = message]
        w  == s1.inner[inner_ptr].waker
        s3 == IF w # NoHandle THEN wake_by_ref(s2, w) ELSE s2
    IN  IF s1.fault # "none" THEN s1 ELSE [release(s3, inner_ptr) EXCEPT !.ret = 0]

\* Lines 135-145 of wnd_proc::<T>: store the message, take and wake the waker.
\* The pointer is used as a RefCell<Inner<T>>: it is undefined behaviour when the
\* Inner it points to is of another type.
wnd_proc_store(T, s, inner_ptr, message) ==
    LET s1 == IF inner_ptr \in Types /\ inner_ptr # T
              THEN Fault(s, "ub")
              ELSE borrow_mut(s, inner_ptr)
        s2 == [s1 EXCEPT !.inner[inner_ptr].message = message]
        w  == s1.inner[inner_ptr].waker
        s3 == IF w # NoHandle
              THEN wake([s2 EXCEPT !.inner[inner_ptr].waker = NoHandle], w)
              ELSE s2
    IN  IF s1.fault # "none" THEN s1 ELSE [release(s3, inner_ptr) EXCEPT !.ret = 0]

\* (variant: the WM_CREATE branch comes before the look-up of the user data)
wnd_proc_install_first(T, s, hwnd, msg, lparam) ==
    LET s1  == IF msg = WM_CREATE
               THEN swap_inner_ptr(s, hwnd, NonNullNew(lparam)).s
               ELSE s
        got == get_inner_ptr(s1, hwnd)
        message == from_message(T, hwnd, msg)
    IN  IF got = None \/ message = None THEN DefWindowProcW(s1, hwnd, msg)
        ELSE [s |-> wnd_proc_store(T, s1, Unwrap(got), message),
              route |-> "handled", touched |-> Unwrap(got)]

\* (variant: the stored waker is taken and woken before the message is decoded)
wnd_proc_wake_first(T, s, hwnd, msg, lparam) ==
    LET got == get_inner_ptr(s, hwnd) IN
    IF got = None THEN DefWindowProcW(s, hwnd, msg)
    ELSE LET inner_ptr == Unwrap(got)
             s1 == IF msg = WM_CREATE
                   THEN swap_inner_ptr(s, hwnd, NonNullNew(lparam)).s
                   ELSE s
             w  == s1.inner[inner_ptr].waker
             s2 == IF s1.heap[inner_ptr] = "live" /\ w # NoHandle
                   THEN wake([s1 EXCEPT !.inner[inner_ptr].waker = NoHandle], w)
                   ELSE s1
             message == from_message(T, hwnd, msg)
         IN  IF message = None THEN DefWindowProcW(s2, hwnd, msg)
             ELSE [s |-> wnd_proc_store(T, s2, inner_ptr, message),
                   route |-> "handled", touched |-> inner_ptr]

\* wnd_proc::<T>(hwnd, msg, wparam, lparam); lparam of WM_CREATE stands for
\* CREATESTRUCTW.lpCreateParams.
wnd_proc(T, s, hwnd, msg, lparam) ==
    LET got == get_inner_ptr(s, hwnd) IN
    IF got = None THEN DefWindowProcW(s, hwnd, msg)
    ELSE LET inner_ptr == Unwrap(got)
             s1 == IF msg = WM_CREATE
                   THEN swap_inner_ptr(s, hwnd, NonNullNew(lparam)).s
                   ELSE s
             message == from_message(T, hwnd, msg)
         IN  IF message = None THEN DefWindowProcW(s1, hwnd, msg)
             ELSE [s |-> wnd_proc_store(T, s1, inner_ptr, message),
                   route |-> "handled", touched |-> inner_ptr]

\* The system calling the window procedure of hwnd's class; the call is put on
\* record in `calls`.
CallWndProc(s, hwnd, msg, lparam) ==
    LET r == wnd_proc(Unwrap(s.class), s, hwnd, msg, lparam) IN
    IF s.fault # "none" THEN s
    ELSE [r.s EXCEPT !.calls = Append(@, [hwnd |-> hwnd, msg |-> msg,
                                        link |-> s.userdata[hwnd],
                                        route |-> r.route, touched |-> r.touched])]

\* get_class::<Msg>(): the OnceLock is initialised by the first caller.
get_class(s, Msg) ==
    IF s.class = None THEN [s EXCEPT !.class = Some(Msg)] ELSE s

\* CreateWindowExW(.., lpParam): WM_NCCREATE then WM_CREATE are sent to the window
\* procedure before it returns; the window is not created when WM_NCCREATE is
\* answered 0.  The result is in `ret`: the hwnd, or NULL.
CreateWindowExW(s, hwnd, lpParam) ==
    LET s0 == [s EXCEPT !.wnd[hwnd] = "alive", !.userdata[hwnd] = NULL]
        s1 == CallWndProc(s0, hwnd, WM_NCCREATE, lpParam)
        s2 == CallWndProc(s1, hwnd, WM_CREATE, lpParam)
    IN  IF s1.fault # "none" THEN s1
        ELSE IF s1.ret = 0
        THEN [s1 EXCEPT !.wnd[hwnd] = "destroyed", !.userdata[hwnd] = NULL, !.ret = NULL]
        ELSE IF s2.fault # "none" THEN s2
        ELSE [s2 EXCEPT !.ret = hwnd]

\* MessageWindow::<Msg>::new()
MessageWindow_new(s, Msg) ==
    LET s1 == get_class(s, Msg)
        s2 == [s1 EXCEPT !.heap[Msg] = "live", !.inner[Msg] = EmptyInner]
        s3 == CreateWindowExW(s2, Msg, Msg)
    IN  IF s3.fault # "none" THEN s3
        ELSE IF s3.ret = NULL
        THEN Fault([s3 EXCEPT !.heap[Msg] = "freed"], "panic")
        ELSE s3

\* (variant: a waker that is stored already is kept, the context's is not taken)
poll_next_keep_first(s, self, cx_waker) ==
    LET s1  == borrow_mut(s, self)
        msg == s1.inner[self].message
        c   == clone(s1, cx_waker)
    IN  IF s1.fault # "none" THEN [s |-> s1, ret |-> None]
        ELSE IF msg # None
        THEN [s |-> release([s1 EXCEPT !.inner[self].message = None], self), ret |-> msg]
        ELSE IF s1.inner[self].waker # NoHandle
        THEN [s |-> release(s1, self), ret |-> None]
        ELSE IF c.s.fault # "none" THEN [s |-> c.s, ret |-> None]
        ELSE [s |-> release([c.s EXCEPT !.inner[self].waker = c.h], self), ret |-> None]

\* MessageWindow::poll_next(cx): the machine after the call and what it returned
\* (None for Poll::Pending, Some(msg) for Poll::Ready(Some(msg))).
poll_next(s, self, cx_waker) ==
    LET s1  == borrow_mut(s, self)
        msg == s1.inner[self].message
        c   == clone(s1, cx_waker)
        old == s1.inner[self].waker
    IN  IF s1.fault # "none" THEN [s |-> s1, ret |-> None]
        ELSE IF msg # None
        THEN [s |-> release([s1 EXCEPT !.inner[self].message = None], self), ret |-> msg]
        ELSE IF c.s.fault # "none" THEN [s |-> c.s, ret |-> None]
        ELSE [s |-> release(drop([c.s EXCEPT !.inner[self].waker = c.h], old), self),
              ret |-> None]

\* DestroyWindow(hwnd): WM_DESTROY and WM_NCDESTROY are sent to the window
\* procedure, the window's posted messages are removed from the queue.
DestroyWindow(s, hwnd) ==
    LET s1 == CallWndProc(s, hwnd, WM_DESTROY, NULL)
        s2 == CallWndProc(s1, hwnd, WM_NCDESTROY, NULL)
    IN  IF s.wnd[hwnd] # "alive" \/ s2.fault # "none" THEN s2
        ELSE [s2 EXCEPT !.wnd[hwnd] = "destroyed",
                        !.queue["A"] = SelectSeq(@, LAMBDA m : m.hwnd # hwnd)]

\* drop(Box::from_raw(inner)): the Inner is dropped (its Option<Waker> with it)
\* and its memory released.
FreeInner(s, p) ==
    IF s.heap[p] # "live" THEN Fault(s, "ub")
    ELSE [drop(s, s.inner[p].waker) EXCEPT !.heap[p] = "freed", !.inner[p] = EmptyInner]

\* (variant: the window is destroyed before its user data is cleared)
DropOrderDestroyFirst == <<"destroy", "clear", "free">>

\* Drop for MessageWindow: the three statements of drop(), in order.
DropOrder == <<"clear", "destroy", "free">>

DropStatement(s, self, op) ==
    LET s1 == CASE op = "clear"   -> swap_inner_ptr(s, self, None).s
                [] op = "destroy" -> DestroyWindow(s, self)
                [] op = "free"    -> FreeInner(s, self)
    IN  IF s1.fault # "none" THEN s1 ELSE [s1 EXCEPT !.dropLog = Append(@, op)]

\* ------------------------------------------------------------ the state
Values == {"v1", "v2"}      \* outputs of a scripted future

Push(h, e) == IF Len(h) < MaxHist THEN Append(h, e) ELSE Append(Tail(h), e)
Ev(w, msg) == [op |-> "ev", v |-> from_message(w, w, msg)]
Polled(r)  == [op |-> "poll", v |-> r]

Init ==
    /\ pc = "idle"
    /\ fut = [kind |-> "none", win |-> NULL]
    /\ bwaker = NoHandle
    /\ trace = <<>>
    /\ waits = 0
    /\ retrieved = 0
    /\ dispatched = 0
    /\ lastOp = "none"
    /\ result = None
    /\ fault = "none"
    /\ queue = [t \in Threads |-> <<>>]
    /\ handles = [h \in Handles |-> "free"]
    /\ closeErr = FALSE
    /\ chan = None
    /\ held = {}
    /\ class = None
    /\ wnd = [w \in Types |-> "none"]
    /\ userdata = [w \in Types |-> NULL]
    /\ heap = [w \in Types |-> "none"]
    /\ inner = [w \in Types |-> EmptyInner]
    /\ adapter = [w \in Types |-> "none"]
    /\ dropLog = <<>>
    /\ calls = <<>>
    /\ lastWake = <<>>
    /\ hist = [w \in Types |-> <<>>]

LoopVars == <<fut, bwaker, trace, waits, retrieved, dispatched, lastOp, chan, result>>

\* ------------------------------------------------ thread A outside block_on
\* let w = MessageWindow::<Msg>::new();  The thread owns one MessageWindow at a
\* time, of either type.
New(Msg) ==
    /\ pc = "idle" /\ fault = "none"
    /\ \A w \in Types : adapter[w] = "none"
    /\ LET s == MessageWindow_new(Machine("A"), Msg) IN
        /\ Commit(s)
        /\ adapter' = [adapter EXCEPT ![Msg] = IF s.fault = "none" THEN "owned" ELSE @]
    /\ hist' = [w \in Types |-> <<>>]
    /\ UNCHANGED <<pc, held, LoopVars>>

\* drop(w): one statement of Drop::drop per step.
Drop(self) ==
    /\ fault = "none"
    /\ \/ pc = "idle" /\ adapter[self] = "owned"
       \/ pc = "drop" /\ adapter[self] = "dropping"
    /\ LET first == (pc = "idle")
           k     == IF first THEN 1 ELSE Len(dropLog) + 1
           s0    == [Machine("A") EXCEPT !.dropLog = IF first THEN <<>> ELSE @]
           s     == DropStatement(s0, self, DropOrder[k])
           last  == (k = Len(DropOrder))
       IN  /\ Commit(s)
           /\ pc' = IF last THEN "dropped" ELSE "drop"
           /\ adapter' = [adapter EXCEPT ![self] = IF last THEN "none" ELSE "dropping"]
    /\ UNCHANGED <<held, hist, LoopVars>>

\* A poll of the stream outside block_on, with a waker made for the purpose:
\* let waker = waker::for_current_thread(); w.poll_next(&mut Context::from_waker(&waker))
PollNext(self) ==
    /\ pc = "idle" /\ fault = "none"
    /\ adapter[self] = "owned"
    /\ LET w == for_current_thread(Machine("A"))
           r == poll_next(w.s, self, w.h)
       IN  /\ Commit(drop(r.s, w.h))
           /\ hist' = [hist EXCEPT ![self] = Push(@, Polled(r.ret))]
    /\ UNCHANGED <<pc, held, adapter, LoopVars>>

\* The caller goes on after block_on returned or the drop ended: the records of
\* that call are forgotten.
Continue ==
    /\ pc \in {"returned", "dropped"} /\ fault = "none"
    /\ pc' = "idle"
    /\ fut' = [kind |-> "none", win |-> NULL]
    /\ trace' = <<>> /\ waits' = 0 /\ retrieved' = 0 /\ dispatched' = 0
    /\ lastOp' = "none" /\ result' = None /\ chan' = None
    /\ dropLog' = <<>> /\ calls' = <<>> /\ lastWake' = <<>>
    /\ UNCHANGED <<bwaker, fault, queue, handles, closeErr, held, class, wnd, userdata, heap,
                   inner, adapter, hist>>

\* The thread ends after it has dropped its windows.
ThreadExit ==
    /\ pc = "idle" /\ fault = "none"
    /\ \A w \in Types : adapter[w] = "none"
    /\ pc' = "exited"
    /\ queue' = [queue EXCEPT !["A"] = <<>>]
    /\ calls' = <<>> /\ lastWake' = <<>>
    /\ UNCHANGED <<fault, handles, closeErr, held, class, wnd, userdata, heap, inner,
                   adapter, dropLog, hist, LoopVars>>

\* ------------------------------------------------------- lib.rs: block_on
ScriptFutures == {[kind |-> "script", win |-> NULL]}
StreamFutures == {[kind |-> "stream", win |-> w] : w \in Types}

RecvFutures   == {[kind |-> "recv", win |-> NULL]}
ScriptSteps == {"pend", "wake", "give", "ready"}

\* (variant: the loop waits for a message before it polls)
BlockOnEntryWait == "wait"

\* The first statement of the loop body is the poll.
BlockOnEntry == "poll"

\* block_on(fut) up to the loop: the waker for the current thread is made.
BlockOn(f) ==
    /\ pc = "idle" /\ fault = "none"
    /\ f.kind = "stream" => adapter[f.win] = "owned"
    /\ LET w == for_current_thread(Machine("A")) IN
        /\ Commit(w.s)
        /\ bwaker' = w.h
    /\ fut' = f
    /\ trace' = <<>> /\ waits' = 0 /\ retrieved' = 0 /\ dispatched' = 0
    /\ lastOp' = "start" /\ result' = None
    /\ pc' = BlockOnEntry
    /\ UNCHANGED <<chan, held, adapter, hist>>

\* What follows fut.poll(): return Ok(value) (the waker is dropped on the way
\* out) or go on to GetMessageW.
AfterPoll(s, o, ready, value) ==
    /\ trace' = Append(trace, o)
    /\ UNCHANGED <<fut, waits, retrieved, dispatched, chan, adapter>>
    /\ IF s.fault # "none"
       THEN Commit(s) /\ UNCHANGED <<pc, bwaker, lastOp, result>>
       ELSE IF ready
       THEN /\ Commit(drop(s, bwaker))
            /\ bwaker' = NoHandle
            /\ result' = Some(<<"Ok", value>>)
            /\ lastOp' = "ready"
            /\ pc' = "returned"
       ELSE /\ Commit(s)
            /\ lastOp' = "pending"
            /\ pc' = "wait"
            /\ UNCHANGED <<bwaker, result>>

\* A poll of a scripted future (a poll_fn as in tests::it_wakes): it returns
\* Pending, Pending after cx.waker().clone().wake(), Pending after handing a
\* clone of the waker to another thread, or Ready(v).
PollScript(o, v) ==
    /\ pc = "poll" /\ fault = "none" /\ Len(trace) < MaxPolls
    /\ fut.kind = "script"
    /\ o = "give" => Cardinality(held) < MaxHeld
    /\ LET m == Machine("A")
           c == clone(m, bwaker)
           s == CASE o = "wake" -> wake(c.s, c.h)
                  [] o = "give" -> c.s
                  [] OTHER      -> m
       IN  /\ AfterPoll(s, o, o = "ready", v)
           /\ held' = IF o = "give" /\ s.fault = "none" THEN held \cup {c.h} ELSE held
    /\ UNCHANGED hist

\* A poll of the future `w.next()` of a MessageWindow stream.
PollStream ==
    /\ pc = "poll" /\ fault = "none" /\ Len(trace) < MaxPolls
    /\ fut.kind = "stream"
    /\ LET r == poll_next(Machine("A"), fut.win, bwaker) IN
        /\ AfterPoll(r.s, IF r.ret = None THEN "pend" ELSE "ready",
                     r.ret # None, IF r.ret = None THEN NULL ELSE Unwrap(r.ret))
        /\ hist' = [hist EXCEPT ![fut.win] = Push(@, Polled(r.ret))]
    /\ UNCHANGED held

\* A poll of the receiving end of a one-shot channel whose sender is on thread
\* B: Ready(v) once v was sent; till then the receiver keeps a clone of the
\* context's waker for the sender, in place of the one it kept before.
PollRecv ==
    /\ pc = "poll" /\ fault = "none"
    /\ fut.kind = "recv"
    /\ chan = None => Len(trace) < MaxPolls
    /\ LET m == Machine("A")
           c == clone(m, bwaker)
           s == IF chan # None THEN m
                ELSE IF held = {} THEN c.s
                ELSE drop(c.s, CHOOSE h \in held : TRUE)
       IN  /\ AfterPoll(s, IF chan = None THEN "give" ELSE "ready", chan # None,
                        IF chan = None THEN NULL ELSE Unwrap(chan))
           /\ held' = IF chan = None /\ s.fault = "none" THEN {c.h} ELSE held
    /\ UNCHANGED hist

\* GetMessageW's return value for what is at the head of the queue.
GetMessageRet(m) == IF m.msg = WM_QUIT THEN 0 ELSE 1

\* DispatchMessageW(&msg): the window procedure of the message's window is
\* called; a thread message (hwnd NULL) or a message of a window that is gone
\* is dropped.
DispatchMessageW(s, m) ==
    IF m.hwnd # NULL /\ s.wnd[m.hwnd] = "alive"
    THEN CallWndProc(s, m.hwnd, m.msg, NULL)
    ELSE s

\* (variant: only the failure is told apart from a retrieved message)
OnWaitQuitDispatched(ret) == IF ret = 0 - 1 THEN "panic" ELSE "dispatch"

\* (variant: every return value that is not positive ends the loop)
OnWaitFailureExits(ret) == IF ret <= 0 THEN "exit" ELSE "dispatch"

\* The branches on GetMessageW's return value.
OnWait(ret) ==
    IF ret = 0 - 1 THEN "panic"
    ELSE IF ret = 0 THEN "exit"
    ELSE "dispatch"

\* GetMessageW returns (with a message, with WM_QUIT, or failing) and the rest of
\* the loop body runs.
GetMessage(ret) ==
    /\ pc = "wait" /\ fault = "none"
    /\ \/ ret = 0 - 1
       \/ queue["A"] # <<>> /\ ret = GetMessageRet(Head(queue["A"]))
    /\ waits' = waits + 1
    /\ UNCHANGED <<fut, trace, chan, held, adapter>>
    /\ LET m   == Head(queue["A"])
           s0  == IF ret = 0 - 1 THEN Machine("A")
                  ELSE [Machine("A") EXCEPT !.queue["A"] = Tail(@)]
           act == OnWait(ret)
       IN  CASE act = "panic" ->
                  /\ Commit(Fault(s0, "panic"))
                  /\ lastOp' = "fail"
                  /\ UNCHANGED <<pc, bwaker, result, retrieved, dispatched, hist>>
             [] act = "exit" ->
                  /\ Commit(drop(s0, bwaker))
                  /\ bwaker' = NoHandle
                  /\ result' = Some(<<"Err", "ShouldExit">>)
                  /\ lastOp' = "quit"
                  /\ pc' = "returned"
                  /\ UNCHANGED <<retrieved, dispatched, hist>>
             [] act = "dispatch" ->
                  /\ Commit(DispatchMessageW(s0, m))
                  /\ retrieved' = retrieved + 1
                  /\ dispatched' = dispatched + 1
                  /\ lastOp' = "event"
                  /\ pc' = "poll"
                  /\ hist' = IF m.hwnd # NULL /\ wnd[m.hwnd] = "alive"
                             THEN [hist EXCEPT ![m.hwnd] = Push(@, Ev(m.hwnd, m.msg))]
                             ELSE hist
                  /\ UNCHANGED <<bwaker, result>>

\* ------------------------------------------------------- the environment
\* SendMessageW(hwnd, msg, ..): the window procedure runs on thread A at once,
\* called by A itself outside block_on, or for another thread while A is inside
\* GetMessageW (which does not return for it).
SendMessage(hwnd, msg) ==
    /\ pc \in {"idle", "wait"} /\ fault = "none"
    /\ wnd[hwnd] = "alive" /\ adapter[hwnd] = "owned"
    /\ Commit(CallWndProc(Machine("A"), hwnd, msg, NULL))
    /\ hist' = [hist EXCEPT ![hwnd] = Push(@, Ev(hwnd, msg))]
    /\ UNCHANGED <<pc, held, adapter, LoopVars>>

\* PostMessageW(hwnd, msg, ..) from any thread.
PostMessage(hwnd, msg) ==
    /\ fault = "none"
    /\ wnd[hwnd] = "alive"
    /\ CanPost(Machine("B"), "A")
    /\ queue' = [queue EXCEPT !["A"] = Append(@, [hwnd |-> hwnd, msg |-> msg])]
    /\ calls' = <<>> /\ lastWake' = <<>>
    /\ UNCHANGED <<pc, fault, handles, closeErr, held, class, wnd, userdata, heap, inner,
                   adapter, dropLog, hist, LoopVars>>

\* PostQuitMessage / PostThreadMessageW(A, msg, ..) by other code: WM_QUIT, or a
\* thread message of its own.
PostThread(msg) ==
    /\ fault = "none"
    /\ CanPost(Machine("B"), "A")
    /\ queue' = [queue EXCEPT !["A"] = Append(@, [hwnd |-> NULL, msg |-> msg])]
    /\ calls' = <<>> /\ lastWake' = <<>>
    /\ UNCHANGED <<pc, fault, handles, closeErr, held, class, wnd, userdata, heap, inner,
                   adapter, dropLog, hist, LoopVars>>

\* Thread B uses a waker it owns: waker.clone(), waker.wake_by_ref(),
\* waker.wake(), drop(waker).
BClone(h) ==
    /\ fault = "none"
    /\ h \in held /\ Cardinality(held) < MaxHeld
    /\ LET c == clone(Machine("B"), h) IN
        /\ Commit(c.s)
        /\ held' = IF c.s.fault = "none" THEN held \cup {c.h} ELSE held
    /\ UNCHANGED <<pc, adapter, hist, LoopVars>>

BWakeByRef(h) ==
    /\ fault = "none"
    /\ h \in held
    /\ Commit(wake_by_ref(Machine("B"), h))
    /\ UNCHANGED <<pc, held, adapter, hist, LoopVars>>

BWake(h) ==
    /\ fault = "none"
    /\ h \in held
    /\ Commit(wake(Machine("B"), h))
    /\ held' = held \ {h}
    /\ UNCHANGED <<pc, adapter, hist, LoopVars>>

BDrop(h) ==
    /\ fault = "none"
    /\ h \in held
    /\ Commit(drop(Machine("B"), h))
    /\ held' = held \ {h}
    /\ UNCHANGED <<pc, adapter, hist, LoopVars>>

\* Thread B sends v on the one-shot channel: the value is stored and the waker
\* the receiver left, if any, is woken.
BSend(v) ==
    /\ fault = "none" /\ pc # "exited"
    /\ chan = None
    /\ chan' = Some(v)
    /\ IF held = {} THEN Commit(Machine("B"))
       ELSE Commit(wake(Machine("B"), CHOOSE h \in held : TRUE))
    /\ held' = {}
    /\ UNCHANGED <<pc, fut, bwaker, trace, waits, retrieved, dispatched, lastOp, result,
                   adapter, hist>>

\* block_on and the waker, run on futures of any behaviour, with other threads
\* waking.
LoopNext ==
    \/ \E f \in ScriptFutures : BlockOn(f)
    \/ \E o \in ScriptSteps : \E v \in (IF o = "ready" THEN Values ELSE {NULL}) :
          PollScript(o, v)
    \/ \E ret \in {0 - 1, 0, 1} : GetMessage(ret)
    \/ Continue
    \/ ThreadExit
    \/ \E m \in {WM_QUIT, "WM_APP"} : PostThread(m)
    \/ \E h \in Handles : BClone(h)
    \/ \E h \in Handles : BWakeByRef(h)
    \/ \E h \in Handles : BWake(h)
    \/ \E h \in Handles : BDrop(h)

\* MessageWindow, polled by hand and under block_on.
WinNext ==
    \/ \E w \in Types : New(w)
    \/ \E w \in Types : Drop(w)
    \/ \E w \in Types : PollNext(w)
    \/ \E f \in StreamFutures : BlockOn(f)
    \/ PollStream
    \/ \E ret \in {0 - 1, 0, 1} : GetMessage(ret)
    \/ Continue
    \/ \E w \in Types, m \in AppMsgs : SendMessage(w, m)
    \/ \E w \in Types, m \in AppMsgs : PostMessage(w, m)

\* block_on on a future that another thread completes, while other messages
\* arrive in the thread's queue.
RecvNext ==
    \/ \E f \in RecvFutures : BlockOn(f)
    \/ PollRecv
    \/ \E ret \in {0 - 1, 0, 1} : GetMessage(ret)
    \/ Continue
    \/ \E m \in {WM_QUIT, "WM_APP"} : PostThread(m)
    \/ \E v \in Values : BSend(v)

Next == LoopNext \/ WinNext \/ RecvNext

Spec     == Init /\ [][Next]_vars
LoopSpec == Init /\ [][LoopNext]_vars
WinSpec  == Init /\ [][WinNext]_vars

\* The window procedure and poll_next as handlers, on every value of their
\* inputs: the window of a new adapter with its GWLP_USERDATA slot either null or
\* holding the address of the adapter's Inner.  (MessageWindow::new leaves the slot
\* null; the address is what wnd_proc and drop expect to find in it.)
LinkedInit ==
    \E w \in Types : \E link \in {NULL, w} :
        /\ pc = "idle"
        /\ fut = [kind |-> "none", win |-> NULL]
        /\ bwaker = NoHandle
        /\ trace = <<>>
        /\ waits = 0
        /\ retrieved = 0
        /\ dispatched = 0
        /\ lastOp = "none"
        /\ chan = None
        /\ result = None
        /\ fault = "none"
        /\ queue = [t \in Threads |-> <<>>]
        /\ handles = [h \in Handles |-> "free"]
        /\ closeErr = FALSE
        /\ held = {}
        /\ class = Some(w)
        /\ wnd = [v \in Types |-> IF v = w THEN "alive" ELSE "none"]
        /\ userdata = [v \in Types |-> IF v = w THEN link ELSE NULL]
        /\ heap = [v \in Types |-> IF v = w THEN "live" ELSE "none"]
        /\ inner = [v \in Types |-> EmptyInner]
        /\ adapter = [v \in Types |-> IF v = w THEN "owned" ELSE "none"]
        /\ dropLog = <<>>
        /\ calls = <<>>
        /\ lastWake = <<>>
        /\ hist = [v \in Types |-> <<>>]

LinkedSpec == LinkedInit /\ [][WinNext]_vars

\* Thread A is scheduled: a poll that is due is made, and GetMessageW returns
\* when a message is in the queue.  Nothing obliges the other threads to send or
\* to post, nor GetMessageW to fail.
RecvFairSpec ==
    /\ Init /\ [][RecvNext]_vars
    /\ WF_vars(PollRecv)
    /\ WF_vars(\E ret \in {0, 1} : GetMessage(ret))

\* ------------------------------------------------------------ the claims
Sentinel == [hwnd |-> NULL, msg |-> WM_NULL]
Last(q) == q[Len(q)]
HeadIs(msg) == queue["A"] # <<>> /\ Head(queue["A"]).msg = msg
\* The step takes the message at the head of A's queue: GetMessageW returned it.
Retrieves(msg) == pc = "wait" /\ HeadIs(msg) /\ queue'["A"] = Tail(queue["A"])

\* Positions of a window's history and the entries found there.
IsEv(h, i)   == i \in DOMAIN h /\ h[i].op = "ev"
IsPoll(h, i) == i \in DOMAIN h /\ h[i].op = "poll"
Owned == {w \in Types : adapter[w] = "owned"}

\* C1: under block_on, the dispatch of a decodable message of the stream's
\* window stores the decoded value in the Inner and wakes the stored waker, and
\* the poll after a Pending poll and that dispatch returns the decoded value.
EndsPollEv(h) ==
    /\ Len(h) >= 2
    /\ IsPoll(h, Len(h) - 1) /\ h[Len(h) - 1].v = None
    /\ IsEv(h, Len(h))

C1_EndToEndDelivery ==
    /\ (fut.kind = "stream" /\ lastOp = "event" /\ fault = "none" /\ calls # <<>>
          /\ EndsPollEv(hist[fut.win]))
          => /\ inner[fut.win].message = Last(hist[fut.win]).v
             /\ inner[fut.win].waker = NoHandle
             /\ \E i \in DOMAIN lastWake : lastWake[i].target = "A"
    /\ \A w \in Types : \A i \in DOMAIN hist[w] :
          (fut.kind = "stream" /\ fut.win = w /\ Len(trace) >= 2
             /\ i + 2 = Len(hist[w])
             /\ IsPoll(hist[w], i) /\ hist[w][i].v = None
             /\ IsEv(hist[w], i + 1) /\ IsPoll(hist[w], i + 2))
          => hist[w][i + 2].v = hist[w][i + 1].v

\* C2: every GetMessageW call of block_on, the first included, directly follows
\* a poll that returned Pending; a poll that returns Ready makes block_on return
\* Ok(value) with no GetMessageW and no DispatchMessageW after it.
C2_PollBeforeWait ==
    [][ /\ waits' = waits + 1 => pc = "wait" /\ lastOp = "pending"
        /\ dispatched' = dispatched + 1 => waits' = waits + 1
        /\ (pc = "poll" /\ trace' # trace /\ Last(trace') = "ready" /\ fault' = "none")
              => /\ pc' = "returned"
                 /\ result' \in {Some(<<"Ok", v>>) : v \in Values}
                 /\ waits' = waits /\ dispatched' = dispatched
        /\ (pc = "returned" /\ pc' = "returned")
              => waits' = waits /\ dispatched' = dispatched /\ result' = result
      ]_vars

C2_Witness ==
    /\ pc = "returned" /\ lastOp = "ready"
    /\ waits = 2 /\ trace = <<"pend", "pend", "ready">>

C4_QuitPropagation ==
    [][ /\ Retrieves(WM_QUIT)
              => /\ pc' = "returned"
                 /\ result' = Some(<<"Err", "ShouldExit">>)
                 /\ trace' = trace /\ dispatched' = dispatched
        /\ (lastOp = "quit" /\ lastOp' = "quit")
              => /\ pc' = "returned" /\ trace' = trace /\ dispatched' = dispatched
                 /\ result' = Some(<<"Err", "ShouldExit">>)
      ]_vars

C4_Witness ==
    /\ pc = "returned" /\ lastOp = "quit"
    /\ result = Some(<<"Err", "ShouldExit">>)
    /\ trace = <<"pend", "wake">> /\ dispatched = 1
    /\ queue["A"] = <<Sentinel>>

\* C5: every open handle, whichever thread made it, refers to thread A; a wake
\* that posts puts the sentinel at the end of A's queue and a wake fails to post
\* only when A has exited or its queue is full; so a wake made while A is between
\* its Pending poll and GetMessageW leaves the queue non-empty, and the sentinel
\* GetMessageW retrieves is followed by the next poll.
C5_CrossThreadWake ==
    /\ \A h \in Handles : handles[h] \in {"free", "A"}
    /\ \A i \in DOMAIN lastWake :
          /\ lastWake[i].target = "A"
          /\ lastWake[i].posted
                => queue["A"] # <<>> /\ Last(queue["A"]) = Sentinel /\ queue["B"] = <<>>
          /\ ~lastWake[i].posted
                => pc = "exited" \/ Len(queue["A"]) = MaxQueue
    /\ (lastOp = "event" /\ pc # "poll") => fault # "none"

C5_Witness ==
    /\ pc = "wait" /\ lastOp = "pending" /\ trace = <<"give">>
    /\ Len(lastWake) = 1 /\ lastWake[1].by = "B" /\ lastWake[1].posted
    /\ queue["A"] = <<Sentinel>>
    /\ Cardinality(held) = 2

\* C6: after new() the window's GWLP_USERDATA holds the address of the adapter's
\* Inner (installed by the window procedure on WM_CREATE), and every call of the
\* window procedure for the window of a live adapter after that finds it there.
C6_LinkInstalled ==
    \A w \in Owned :
        /\ userdata[w] = w
        /\ \A i \in DOMAIN calls :
              (calls[i].hwnd = w /\ calls[i].msg \notin {WM_NCCREATE, WM_CREATE})
                 => calls[i].link = w

\* C7: drop performs "clear the user data", "destroy the window", "release the
\* Inner" in this order; a destroyed window's user data is clear, and an Inner
\* is released only when its window is gone.
C7_TeardownOrder ==
    /\ \E k \in 0 .. 3 : dropLog = SubSeq(<<"clear", "destroy", "free">>, 1, k)
    /\ pc = "dropped" => Len(dropLog) = 3
    /\ (pc = "drop" /\ fault = "none") => Len(dropLog) \in {1, 2}
    /\ \A w \in Types :
          /\ wnd[w] = "destroyed" => userdata[w] = NULL
          /\ heap[w] = "freed" => wnd[w] = "destroyed"
          /\ (adapter[w] = "dropping" /\ Len(dropLog) = 1)
                => userdata[w] = NULL /\ wnd[w] = "alive" /\ heap[w] = "live"
          /\ (adapter[w] = "dropping" /\ Len(dropLog) = 2)
                => userdata[w] = NULL /\ wnd[w] = "destroyed" /\ heap[w] = "live"

C7_Witness ==
    /\ pc = "dropped" /\ dropLog = <<"clear", "destroy", "free">>
    /\ wnd["T1"] = "destroyed" /\ heap["T1"] = "freed" /\ adapter["T1"] = "none"

\* C8: a call of the window procedure that finds the user data clear goes to
\* DefWindowProcW and touches no Inner; that is the case of every call made
\* while and after the adapter is dropped; and no step uses an Inner that is not
\* live (fault "ub").
C8_TeardownSafety ==
    /\ fault # "ub"
    /\ \A i \in DOMAIN calls :
          /\ calls[i].link = NULL
                => calls[i].route = "default" /\ calls[i].touched = NULL
          /\ calls[i].touched # NULL => heap[calls[i].touched] = "live"
          /\ pc \in {"drop", "dropped"} => calls[i].route = "default"
    /\ \A w \in Types : \A i \in DOMAIN queue["A"] :
          queue["A"][i].hwnd = w => wnd[w] = "alive"

C8_Witness ==
    /\ pc = "drop" /\ dropLog = <<"clear", "destroy">>
    /\ adapter["T2"] = "dropping" /\ class = Some("T2")
    /\ Len(calls) = 2
    /\ calls[1].msg = WM_DESTROY /\ calls[1].route = "default"
    /\ calls[2].msg = WM_NCDESTROY /\ calls[2].route = "default"
    /\ Len(hist["T2"]) >= 1

\* C9: of two decodable messages delivered to the window with no poll between
\* them, the next poll returns the second's decoded value and the poll after
\* that returns Pending.
C9_LastWriteWins ==
    \A w \in Types : \A i \in DOMAIN hist[w] :
        (IsEv(hist[w], i) /\ IsEv(hist[w], i + 1) /\ IsPoll(hist[w], i + 2))
          => /\ hist[w][i + 2].v = hist[w][i + 1].v
             /\ IsPoll(hist[w], i + 3) => hist[w][i + 3].v = None

\* C10: when deliveries and polls alternate from the first delivery on
\* (delivery, poll, delivery, poll, ..), every poll returns the decoded value of
\* the delivery before it.
Alternates(h) ==
    \A i \in DOMAIN h : IF i % 2 = 1 THEN IsEv(h, i) ELSE IsPoll(h, i)

C10_FifoPerPair ==
    \A w \in Types :
        Alternates(hist[w])
          => \A i \in DOMAIN hist[w] : i % 2 = 0 => hist[w][i].v = hist[w][i - 1].v

\* ---------------------------------------------------------------- C11
\* The handle values that some Waker owns: block_on's, thread B's, and the one
\* stored in each adapter.
StoredWakers == {inner[w].waker : w \in Types} \ {NoHandle}
OwnedHandles == (({bwaker} \ {NoHandle}) \cup held) \cup StoredWakers
OpenHandles  == {h \in Handles : handles[h] # "free"}

\* C11: every Waker owns an OS thread handle of its own.  Whatever the number
\* of clones and the order and kind of their releases (wake, wake_by_ref, drop),
\* the open handles are exactly the handles of the Wakers that exist: no two
\* Wakers share one, none is closed while its Waker exists, none is closed
\* twice, and none stays open once its Waker is gone, block_on's included.
C11_IndependentRelease ==
    /\ ~closeErr
    /\ OpenHandles = OwnedHandles
    /\ bwaker \notin held
    /\ StoredWakers \cap ({bwaker} \cup held) = {}
    /\ \A v, w \in Types : v # w /\ inner[v].waker # NoHandle
                              => inner[v].waker # inner[w].waker
    /\ pc \in {"idle", "returned", "dropped", "exited"} => bwaker = NoHandle
    /\ pc \in {"poll", "wait"} => bwaker # NoHandle

\* block_on returned after two clones went to thread B, and B has released all
\* it held, the last one by a consuming wake: every handle is closed.
C11_Witness ==
    /\ pc = "returned" /\ trace = <<"give", "give", "ready">>
    /\ held = {} /\ OpenHandles = {}
    /\ Len(lastWake) = 1 /\ lastWake[1].by = "B"

\* ---------------------------------------------------------------- C12
\* C12: a wake never panics.  A wake that posts nothing (the thread id does not
\* resolve, or PostThreadMessageW fails because the target is gone or its queue
\* is full) leaves every queue as it was, and when another thread made it, the
\* executor loop and the adapters are as they were.
C12_BestEffortWake ==
    [][\A i \in DOMAIN lastWake' :
          /\ fault' = "none"
          /\ ~lastWake'[i].posted
                => /\ queue' = queue
                   /\ lastWake'[i].by = "B"
                         => UNCHANGED <<pc, LoopVars, inner, userdata, wnd, heap,
                                        adapter, hist>>]_vars

\* Thread A has ended; thread B wakes a waker it still holds, nothing is posted.
C12_Witness ==
    /\ pc = "exited" /\ fault = "none"
    /\ lastWake = <<[by |-> "B", target |-> "A", posted |-> FALSE]>>

\* A's queue is full while A waits; B's wake posts nothing.
C12_WitnessFull ==
    /\ pc = "wait" /\ fault = "none" /\ Len(queue["A"]) = MaxQueue
    /\ lastWake = <<[by |-> "B", target |-> "A", posted |-> FALSE]>>

\* ---------------------------------------------------------------- C13
\* C13: the window class is registered per message type, so the window of an
\* adapter of type T is served by the window procedure that decodes with T's
\* from_message, whatever types were constructed before.
C13_ClassPerType ==
    \A w \in Types : wnd[w] = "alive" => class = Some(w)

\* ---------------------------------------------------------------- C14
\* C14: under fair scheduling of the thread, once the value was sent while
\* block_on runs the receiving future, block_on polls again and returns
\* Ok(value), also when the sender's wake was lost because the thread's queue
\* was full: the messages that filled the queue make the loop poll.  The only
\* other ends are the outcomes of the wait itself: WM_QUIT or a failure.
C14_ProgressUnderLostWakes ==
    \A v \in Values :
        (fut.kind = "recv" /\ pc \in {"poll", "wait"} /\ fault = "none"
            /\ chan = Some(v))
        ~> \/ pc = "returned" /\ result = Some(<<"Ok", v>>)
           \/ pc = "returned" /\ lastOp = "quit"
           \/ fault = "panic" /\ lastOp = "fail"

\* The value was sent while the loop waits, and the sender's wake was lost: A's
\* queue was full.
C14_Witness ==
    /\ fut.kind = "recv" /\ pc = "wait" /\ fault = "none" /\ chan # None
    /\ Len(queue["A"]) = MaxQueue
    /\ lastWake = <<[by |-> "B", target |-> "A", posted |-> FALSE]>>

\* ---------------------------------------------------------------- C15
\* C15: when GetMessageW fails (the call is counted and nothing left the queue),
\* block_on panics: it has no result, it stays at the wait, and that step and
\* every later one polls nothing and dispatches nothing.
C15_FatalWaitFailure ==
    [][ /\ (waits' = waits + 1 /\ queue' = queue)
              => /\ fault' = "panic" /\ lastOp' = "fail"
                 /\ pc' = "wait" /\ result' = None
                 /\ trace' = trace /\ dispatched' = dispatched /\ calls' = <<>>
        /\ fault = "panic"
              => trace' = trace /\ dispatched' = dispatched /\ result' = result
      ]_vars

\* The second wait of a block_on call failed while a message was in the queue.
C15_Witness ==
    /\ fault = "panic" /\ lastOp = "fail" /\ pc = "wait" /\ result = None
    /\ waits = 2 /\ Len(trace) = 2 /\ dispatched = 1
    /\ queue["A"] # <<>>

\* ---------------------------------------------------------------- C16
\* The step is a poll of the adapter w: block_on's poll of its stream, or a poll
\* made by hand.
PollsWindow(w) ==
    \/ /\ pc = "poll" /\ fut.kind = "stream" /\ fut.win = w
       /\ trace' # trace
    \/ /\ pc = "idle" /\ pc' = "idle"
       /\ adapter[w] = "owned" /\ adapter' = adapter
       /\ calls' = <<>> /\ queue' = queue
       /\ handles' # handles \/ inner' # inner

\* C16: the Inner has one waker slot.  A poll that finds no message stores a
\* clone of the context's waker there, closes the one stored before, and returns
\* Pending; a poll that finds a message returns it, leaves the slot of the message
\* empty and the stored waker as it was.  After either, the only open handles are
\* block_on's and the one stored: nothing of the replaced waker is kept.
C16_SinglePendingWake ==
    [][\A w \in Types :
          (PollsWindow(w) /\ fault' = "none")
          => /\ inner'[w].message = None
             /\ OpenHandles' = OwnedHandles'
             /\ Last(hist'[w]) = Polled(inner[w].message)
             /\ pc = "poll" => pc' = IF inner[w].message = None THEN "wait"
                                                               ELSE "returned"
             /\ inner[w].message = None
                   => /\ inner'[w].waker \notin {NoHandle, inner[w].waker}
                      /\ handles'[inner'[w].waker] = "A"
                      /\ inner[w].waker # NoHandle => handles'[inner[w].waker] = "free"
                      /\ result' = None
             /\ inner[w].message # None
                   => /\ inner'[w].waker = inner[w].waker
                      /\ pc = "poll"
                            => result' = Some(<<"Ok", Unwrap(inner[w].message)>>)]_vars

\* block_on's second poll found a message and returned it: the first one stored
\* the waker, the delivery in between took it.
C16_Witness ==
    /\ pc = "returned" /\ trace = <<"pend", "ready">>
    /\ result # None /\ Unwrap(result)[1] = "Ok"
    /\ inner[fut.win].message = None /\ inner[fut.win].waker = NoHandle

\* Two polls by hand in a row found no message: the second replaced the waker
\* the first had stored.
C16_WitnessReplaced ==
    \E w \in Owned :
        /\ pc = "idle" /\ hist[w] = <<Polled(None), Polled(None)>>
        /\ inner[w].waker # NoHandle /\ Cardinality(OpenHandles) = 1

\* ---------------------------------------------------------------- C17
\* The call on record is one whose message the window procedure's from_message
\* finds not relevant.
NotRelevant(c) == from_message(Unwrap(class'), c.hwnd, c.msg) = None

\* C17: a message that from_message answers with None goes to DefWindowProcW and
\* no Inner is touched; a step that delivers only such messages to an adapter's
\* window leaves every Inner (message and waker) and every handle as they were
\* and makes no wake.
C17_NotRelevantUnchanged ==
    [][ /\ \A i \in DOMAIN calls' :
              NotRelevant(calls'[i])
                 => calls'[i].route = "default" /\ calls'[i].touched = NULL
        /\ ( /\ calls' # <<>> /\ adapter' = adapter
             /\ \A i \in DOMAIN calls' : NotRelevant(calls'[i]) )
              => inner' = inner /\ handles' = handles /\ lastWake' = <<>>
      ]_vars

\* Under block_on, a message T1 does not decode was dispatched to the window
\* while its slot held the Inner's address and a waker was stored.
C17_Witness ==
    \E w \in Owned :
        /\ pc = "poll" /\ class = Some("T1")
        /\ calls = <<[hwnd |-> w, msg |-> "WM_APP", link |-> w,
                      route |-> "default", touched |-> NULL]>>
        /\ inner[w].waker # NoHandle /\ inner[w].message = None

\* ---------------------------------------------------------------- C18
\* C18: the window procedure reaches from_message and the store only on a call
\* that found the user data set and whose message is not WM_CREATE; the WM_CREATE
\* of a window's creation goes to DefWindowProcW, and after it the new adapter's
\* Inner holds no message and no wake was made.
C18_CreationNotDecoded ==
    \A i \in DOMAIN calls :
        /\ calls[i].route = "handled"
              => calls[i].link # NULL /\ calls[i].msg # WM_CREATE
        /\ calls[i].msg = WM_CREATE
              => /\ calls[i].route = "default" /\ calls[i].touched = NULL
                 /\ inner[calls[i].hwnd].message = None
                 /\ lastWake = <<>>

\* A window of type T2, whose from_message accepts WM_CREATE, was created: the
\* creation's WM_CREATE went to the default handler.
C18_Witness ==
    /\ adapter["T2"] = "owned" /\ class = Some("T2") /\ fault = "none"
    /\ Len(calls) = 2 /\ calls[2].hwnd = "T2" /\ calls[2].msg = WM_CREATE
    /\ calls[2].route = "default"

\* ---------------------------------------------------------------- C19
\* C19: poll_next and wnd_proc each give their borrow of the Inner back before
\* they return, and the wake wnd_proc makes while it holds the borrow only posts
\* a message: between the steps of the thread no Inner is borrowed, one step
\* runs at most one window procedure that stores, and no borrow_mut ever finds
\* the Inner borrowed (the only panic is the one of a failed wait).
C19_ExclusiveAccess ==
    /\ \A w \in Types : ~inner[w].borrowed
    /\ fault = "panic" => lastOp = "fail"
    /\ Cardinality({i \in DOMAIN calls : calls[i].route = "handled"}) <= 1
    /\ \A i \in DOMAIN lastWake : lastWake[i].by = "A"
    /\ (\E i \in DOMAIN calls : calls[i].route = "handled") => Len(lastWake) <= 1

\* Under block_on a dispatched message was stored and the stored waker woken
\* inside the window procedure's borrow; the loop is about to poll.
C19_Witness ==
    \E w \in Owned :
        /\ pc = "poll" /\ fault = "none" /\ fut.win = w
        /\ Len(calls) = 1 /\ calls[1].route = "handled" /\ calls[1].touched = w
        /\ Len(lastWake) = 1 /\ lastWake[1].posted
        /\ inner[w].message # None /\ ~inner[w].borrowed

\* ---------------------------------------------------------------- C20
\* The step ran a window procedure call that stored a message in the Inner of w.
\* (Primed: the calls on record are those of the step.)
StoresInto(w) ==
    \E i \in DOMAIN calls' : calls'[i].route = "handled" /\ calls'[i].touched = w

\* C20: no Inner ever holds a message and a waker together.  A step that stores
\* a message while a waker is stored takes that waker, wakes it once (one post to
\* thread A) and closes its handle; a step that stores while no waker is stored
\* wakes nothing.
C20_NoMissedWake ==
    [][\A w \in Types :
          /\ ~(inner'[w].message # None /\ inner'[w].waker # NoHandle)
          /\ (StoresInto(w) /\ fault' = "none")
                => /\ inner'[w].message # None /\ inner'[w].waker = NoHandle
                   /\ IF inner[w].waker # NoHandle
                      THEN /\ Len(lastWake') = 1 /\ lastWake'[1].target = "A"
                           /\ handles'[inner[w].waker] = "free"
                      ELSE lastWake' = <<>>]_vars

\* The last poll returned Pending and stored its waker; a message sent to the
\* window while the loop waits was stored and that waker was woken.
C20_Witness ==
    \E w \in Owned :
        /\ pc = "wait" /\ fault = "none" /\ fut.win = w
        /\ EndsPollEv(hist[w])
        /\ inner[w].message # None /\ inner[w].waker = NoHandle
        /\ Len(lastWake) = 1 /\ lastWake[1].posted
        /\ Last(queue["A"]) = Sentinel


====
